---- MODULE Spec2Model ----
(***************************************************************************)
(* Model of process_one_scene of scripts/feature_fusion/scannet_openseg.py *)
(* : the shard check, the optional feature prefetch, the view loop that    *)
(* accumulates per-point feature sums and counters, the finalization and   *)
(* the hand-over to save_fused_feature.                                    *)
(*                                                                         *)
(* Tensors of dtype float32 (counter, sum_features, feat_2d, feat_bank)    *)
(* hold values m * 2^e, written [m |-> m, e |-> e] with m odd (or 0): one  *)
(* record per float32 value, so record equality is value equality.         *)
(* Indices are 0-based as in the source; a row of `mapping` is the tuple   *)
(* <<1, row, col, mask>>, i.e. source column j is tuple position j + 1.    *)
(***************************************************************************)
EXTENDS Integers, Sequences, FiniteSets, TLC

\* ---------------------------------------------------------------- bounds
NumPoints == 2
MaxViews == 3
FeatDim == 1
ImgH == 1
ImgW == 2

\* num_rand_file_per_scene as main() sets it for the two splits
TrainShards == 5
ValShards == 1

Points == 0 .. NumPoints - 1
Dims == 0 .. FeatDim - 1
Rows == 0 .. ImgH - 1
Cols == 0 .. ImgW - 1

\* ---------------------------------------------------- float32 arithmetic
Two24 == 2 ^ 24

Abs(z) == IF z < 0 THEN 0 - z ELSE z

Sign(z) == IF z < 0 THEN 0 - 1 ELSE 1

\* the record of m * 2^e: factors of two move from m into e.  (These helpers
\* are recursive functions, so each level works on evaluated arguments.)
Canon[m \in Int, e \in Int] ==
    IF m = 0 THEN [m |-> 0, e |-> 0]
    ELSE IF m % 2 = 0 THEN Canon[m \div 2, e + 1]
    ELSE [m |-> m, e |-> e]

FromInt(z) == Canon[z, 0]

Zero == FromInt(0)

One == FromInt(1)

\* float32(1e-5) = 10995116 * 2^-40
Eps == Canon[10995116, 0 - 40]

\* the integer a float32 value stands for (values with e >= 0 only)
IntOf(x) == x.m * (2 ^ x.e)

\* spacing of float32 values at magnitude a (24-bit significand)
Ulp[a \in Nat] == IF a < Two24 THEN 1 ELSE 2 * Ulp[a \div 2]

\* round-to-nearest, ties-to-even, of a non-negative integer to 24 bits
Round24(a) ==
    LET u == Ulp[a]
        q == a \div u
        r == a % u
    IN  IF 2 * r > u THEN (q + 1) * u
        ELSE IF 2 * r = u THEN (q + (q % 2)) * u
        ELSE q * u

\* float32 addition of integer-valued operands
FAdd(x, y) ==
    LET z == IntOf(x) + IntOf(y)
    IN  FromInt(Sign(z) * Round24(Abs(z)))

\* scale num/den into [1, 2)
Norm[num \in Nat, den \in Nat, e \in Int] ==
    IF num < den THEN Norm[2 * num, den, e - 1]
    ELSE IF num >= 2 * den THEN Norm[num, 2 * den, e + 1]
    ELSE <<num, den, e>>

\* binary long division: the first 24 bits of r/den and the remainder
LongDiv[r \in Nat, den \in Nat, q \in Nat, i \in Nat] ==
    LET bit == IF r >= den THEN 1 ELSE 0
        r2 == r - bit * den
    IN  IF i = 24 THEN <<2 * q + bit, r2>>
        ELSE LongDiv[2 * r2, den, 2 * q + bit, i + 1]

\* float32 division x / y, y > 0, round-to-nearest ties-to-even
FDiv(x, y) ==
    IF x.m = 0 THEN Zero
    ELSE LET n == Norm[Abs(x.m), y.m, x.e - y.e]
             qr == LongDiv[n[1], n[2], 0, 1]
             q == qr[1]
             r == qr[2]
             up == IF 2 * r > n[2] THEN 1
                   ELSE IF 2 * r = n[2] THEN q % 2
                   ELSE 0
         IN  Canon[Sign(x.m) * (q + up), n[3] - 23]

\* ----------------------------------------------------------- environment
\* shard files found on disk when the scene is started
ShardStates(n_interval) == {{}, {0}, 0 .. n_interval - 1}

\* values a feature field holds
FeatVals == {0, 1, Two24}

\* extract_openseg_img_feature: a (D, H, W) field
FieldOf(a) ==
    [i \in Dims \X Rows \X Cols |->
        IF i[3] % 2 = 0 THEN FromInt(a) ELSE FromInt(0 - a)]

FeatureFields == {FieldOf(a) : a \in FeatVals}

NoField == FieldOf(0)

\* point sets one view can see: none, the last point alone, or every point
VisibleSets == {{}, {NumPoints - 1}, Points}

\* mapping = ones([n_points, 4]); mapping[:, 1:4] = compute_mapping(...):
\* rows <<1, row, col, mask>>, mask 0 or 1, an invisible point at (0, 0).
\* A view that frames every point lays them along the image diagonal; a view
\* that frames one point has it at pixel (0, 0).
MappingOf(vis) ==
    [p \in Points |->
        IF p \notin vis THEN <<1, 0, 0, 0>>
        ELSE IF vis = {p} THEN <<1, 0, 0, 1>>
        ELSE <<1, p % ImgH, p % ImgW, 1>>]

Mappings == {MappingOf(vis) : vis \in VisibleSets}

\* ------------------------------------------------------------- the state
VARIABLES
    pc,                       \* position in process_one_scene
    retval,                   \* "" while running, then "1" or "None"
    num_rand_file_per_scene,  \* args.num_rand_file_per_scene (n_interval)
    existing,                 \* shard indices n with <scene_id>_n.pt on disk
    n,                        \* index of the shard-check loop
    n_finished,
    keep_features_in_memory,
    model_loaded,             \* openseg_model is not None
    num_img,
    img_features,             \* the prefetched fields, one per image
    img_id,                   \* index of the view loop
    counter,
    sum_features,
    vis_id,
    feat_bank,
    point_ids,
    views,                    \* the views loaded so far: mapping and field
    extract_log,              \* image ids extract_openseg_img_feature got
    saved                     \* the calls of save_fused_feature

vars == <<pc, retval, num_rand_file_per_scene, existing, n, n_finished,
          keep_features_in_memory, model_loaded, num_img, img_features,
          img_id, counter, sum_features, vis_id, feat_bank, point_ids,
          views, extract_log, saved>>

config == <<num_rand_file_per_scene, existing, keep_features_in_memory,
            model_loaded>>

accumulator == <<counter, sum_features, vis_id>>

outputs == <<feat_bank, point_ids, saved>>

\* ------------------------------------------------- the pieces of the code
\* variant: return as soon as one shard exists
AllShardsDoneAnyShard(nf, n_interval) == nf > 0

\* line 63
AllShardsDone(nf, n_interval) == nf = n_interval

\* line 74
UsePrefetch(keep, model) == keep /\ model

\* variant: torch.ones in place of torch.zeros
OnesCounter(pts) == [p \in pts |-> One]

\* line 79
ZeroCounter(pts) == [p \in pts |-> Zero]

\* line 80
ZeroSum(pts) == [p \in pts |-> [d \in Dims |-> Zero]]

\* line 83
ZeroVis(pts, nimg) == [p \in pts |-> [v \in 0 .. nimg - 1 |-> 0]]

\* line 95: mapping[:, 3].sum() == 0
RECURSIVE MaskSum(_, _)
MaskSum(mapping, pts) ==
    IF pts = {} THEN 0
    ELSE LET p == CHOOSE q \in pts : TRUE
         IN  mapping[p][4] + MaskSum(mapping, pts \ {p})

\* variant: the test reads column 0 (the constant ones) instead of the mask
IsSkippedOnesColumn(mapping) == \A p \in DOMAIN mapping : mapping[p][1] = 0

IsSkipped(mapping) == MaskSum(mapping, DOMAIN mapping) = 0

\* variant: the ledger is rebuilt for each view, keeping only its column
SetVisColumnFresh(vis, img, mapping) ==
    [p \in DOMAIN vis |->
        [v \in DOMAIN vis[p] |-> IF v = img THEN mapping[p][4] ELSE 0]]

\* line 100: vis_id[:, img_id] = mask
SetVisColumn(vis, img, mapping) ==
    [p \in DOMAIN vis |-> [vis[p] EXCEPT ![img] = mapping[p][4]]]

\* variant: the row index is used for both pixel coordinates
GatherRowTwice(feat_2d, mapping) ==
    [p \in DOMAIN mapping |->
        [d \in Dims |-> feat_2d[<<d, mapping[p][2], mapping[p][2]>>]]]

\* line 106: feat_2d[:, mapping[:, 1], mapping[:, 2]].permute(1, 0)
Gather(feat_2d, mapping) ==
    [p \in DOMAIN mapping |->
        [d \in Dims |-> feat_2d[<<d, mapping[p][2], mapping[p][3]>>]]]

\* variant: counter += 1 without the mask
AddCounterUnmasked(cnt, mapping) ==
    [p \in DOMAIN cnt |-> FAdd(cnt[p], One)]

\* line 108: counter[mask != 0] += 1
AddCounter(cnt, mapping) ==
    [p \in DOMAIN cnt |->
        IF mapping[p][4] # 0 THEN FAdd(cnt[p], One) ELSE cnt[p]]

\* variant: sum_features += feat_2d_3d without the mask
AddFeaturesUnmasked(sum, mapping, feat_2d_3d) ==
    [p \in DOMAIN sum |->
        [d \in Dims |-> FAdd(sum[p][d], feat_2d_3d[p][d])]]

\* variant: sum_features[mask != 0] = feat_2d_3d[mask != 0]
AddFeaturesOverwrite(sum, mapping, feat_2d_3d) ==
    [p \in DOMAIN sum |->
        IF mapping[p][4] # 0 THEN feat_2d_3d[p] ELSE sum[p]]

\* line 109: sum_features[mask != 0] += feat_2d_3d[mask != 0]
AddFeatures(sum, mapping, feat_2d_3d) ==
    [p \in DOMAIN sum |->
        IF mapping[p][4] # 0
        THEN [d \in Dims |-> FAdd(sum[p][d], feat_2d_3d[p][d])]
        ELSE sum[p]]

\* lines 98-109: the body of the view loop for a view that is not skipped
FuseView(acc, img, mapping, feat_2d) ==
    [counter |-> AddCounter(acc.counter, mapping),
     sum_features |->
        AddFeatures(acc.sum_features, mapping, Gather(feat_2d, mapping)),
     vis_id |-> SetVisColumn(acc.vis_id, img, mapping)]

\* line 111: counter[counter == 0] = 1e-5
EpsFloor(cnt) == [p \in DOMAIN cnt |-> IF cnt[p] = Zero THEN Eps ELSE cnt[p]]

\* line 112: sum_features / counter
Divide(sum, cnt) ==
    [p \in DOMAIN sum |-> [d \in Dims |-> FDiv(sum[p][d], cnt[p])]]

\* line 113: torch.unique(vis_id.nonzero(as_tuple=False)[:, 0])
PointIds(vis) ==
    {p \in DOMAIN vis : \E v \in DOMAIN vis[p] : vis[p][v] # 0}

\* variant: sum_features /= counter, dividing in place
FinalizeInPlace(cnt, sum, vis) ==
    LET c2 == EpsFloor(cnt)
    IN  [counter |-> c2,
         sum_features |-> Divide(sum, c2),
         vis_id |-> vis,
         feat_bank |-> Divide(sum, c2),
         point_ids |-> PointIds(vis)]

\* lines 111-113
FinalizeOp(cnt, sum, vis) ==
    LET c2 == EpsFloor(cnt)
    IN  [counter |-> c2,
         sum_features |-> sum,
         vis_id |-> vis,
         feat_bank |-> Divide(sum, c2),
         point_ids |-> PointIds(vis)]

\* ------------------------------------------------------------------ Init
\* process_one_scene is entered with its arguments set: args comes from
\* main(), which sets num_rand_file_per_scene by the split and leaves
\* openseg_model None when no model path is given; keep_features_in_memory
\* is hard-coded False there, and the function handles both values.
Init ==
    /\ pc = "check_shards"
    /\ retval = ""
    /\ num_rand_file_per_scene \in {ValShards, TrainShards}
    /\ existing \in ShardStates(num_rand_file_per_scene)
    /\ n = 0
    /\ n_finished = 0
    /\ keep_features_in_memory \in BOOLEAN
    /\ model_loaded \in BOOLEAN
    /\ num_img = 0
    /\ img_features = <<>>
    /\ img_id = 0
    /\ counter = <<>>
    /\ sum_features = <<>>
    /\ vis_id = <<>>
    /\ feat_bank = <<>>
    /\ point_ids = {}
    /\ views = <<>>
    /\ extract_log = <<>>
    /\ saved = <<>>

\* --------------------------------------------------------------- actions
\* lines 57-62: one iteration of the shard-check loop
CheckShard ==
    /\ pc = "check_shards"
    /\ n < num_rand_file_per_scene
    /\ n_finished' = IF n \in existing THEN n_finished + 1 ELSE n_finished
    /\ n' = n + 1
    /\ UNCHANGED <<pc, retval, config, num_img, img_features, img_id,
                   accumulator, outputs, views, extract_log>>

\* lines 63-64: every shard exists, return 1
AlreadyDone ==
    /\ pc = "check_shards"
    /\ n = num_rand_file_per_scene
    /\ AllShardsDone(n_finished, num_rand_file_per_scene)
    /\ pc' = "returned"
    /\ retval' = "1"
    /\ UNCHANGED <<config, n, n_finished, num_img, img_features, img_id,
                   accumulator, outputs, views, extract_log>>

\* lines 67-70: list the colour images of the scene
ListImages ==
    /\ pc = "check_shards"
    /\ n = num_rand_file_per_scene
    /\ ~AllShardsDone(n_finished, num_rand_file_per_scene)
    /\ \E k \in 0 .. MaxViews : num_img' = k
    /\ pc' = "prefetch"
    /\ UNCHANGED <<retval, config, n, n_finished, img_features, img_id,
                   accumulator, outputs, views, extract_log>>

\* lines 74-77: one iteration of the prefetch loop
PrefetchFeature ==
    /\ pc = "prefetch"
    /\ UsePrefetch(keep_features_in_memory, model_loaded)
    /\ Len(img_features) < num_img
    /\ \E f \in FeatureFields : img_features' = Append(img_features, f)
    /\ extract_log' = Append(extract_log, Len(img_features))
    /\ UNCHANGED <<pc, retval, config, n, n_finished, num_img, img_id,
                   accumulator, outputs, views>>

\* lines 78-83: allocate the accumulator and the visibility ledger
AllocAccumulators ==
    /\ pc = "prefetch"
    /\ UsePrefetch(keep_features_in_memory, model_loaded)
          => Len(img_features) = num_img
    /\ counter' = ZeroCounter(Points)
    /\ sum_features' = ZeroSum(Points)
    /\ vis_id' = ZeroVis(Points, num_img)
    /\ img_id' = 0
    /\ pc' = "view_loop"
    /\ UNCHANGED <<retval, config, n, n_finished, num_img, img_features,
                   outputs, views, extract_log>>

\* lines 85-96: a view no point maps into
SkipView ==
    /\ pc = "view_loop"
    /\ img_id < num_img
    /\ \E mapping \in Mappings :
          /\ IsSkipped(mapping)
          /\ views' = Append(views, [mapping |-> mapping, feat_2d |-> NoField])
    /\ img_id' = img_id + 1
    /\ UNCHANGED <<pc, retval, config, n, n_finished, num_img, img_features,
                   accumulator, outputs, extract_log>>

\* lines 85-109 with the field taken from img_features (line 102)
FuseCachedView ==
    /\ pc = "view_loop"
    /\ img_id < num_img
    /\ keep_features_in_memory
    /\ model_loaded
    /\ \E mapping \in Mappings :
          /\ ~IsSkipped(mapping)
          /\ LET feat_2d == img_features[img_id + 1]
                 acc == FuseView([counter |-> counter,
                                  sum_features |-> sum_features,
                                  vis_id |-> vis_id],
                                 img_id, mapping, feat_2d)
             IN  /\ counter' = acc.counter
                 /\ sum_features' = acc.sum_features
                 /\ vis_id' = acc.vis_id
                 /\ views' = Append(views,
                                [mapping |-> mapping, feat_2d |-> feat_2d])
    /\ img_id' = img_id + 1
    /\ UNCHANGED <<pc, retval, config, n, n_finished, num_img, img_features,
                   outputs, extract_log>>

\* lines 85-109 with the field extracted on the fly (line 104)
FuseExtractedView ==
    /\ pc = "view_loop"
    /\ img_id < num_img
    /\ ~keep_features_in_memory
    /\ model_loaded
    /\ \E mapping \in Mappings, feat_2d \in FeatureFields :
          /\ ~IsSkipped(mapping)
          /\ LET acc == FuseView([counter |-> counter,
                                  sum_features |-> sum_features,
                                  vis_id |-> vis_id],
                                 img_id, mapping, feat_2d)
             IN  /\ counter' = acc.counter
                 /\ sum_features' = acc.sum_features
                 /\ vis_id' = acc.vis_id
                 /\ views' = Append(views,
                                [mapping |-> mapping, feat_2d |-> feat_2d])
    /\ extract_log' = Append(extract_log, img_id)
    /\ img_id' = img_id + 1
    /\ UNCHANGED <<pc, retval, config, n, n_finished, num_img, img_features,
                   outputs>>

\* lines 85-102: img_features was never bound (line 74 was false)
CacheUnbound ==
    /\ pc = "view_loop"
    /\ img_id < num_img
    /\ keep_features_in_memory
    /\ ~model_loaded
    /\ \E mapping \in Mappings :
          /\ ~IsSkipped(mapping)
          /\ vis_id' = SetVisColumn(vis_id, img_id, mapping)
          /\ views' = Append(views, [mapping |-> mapping, feat_2d |-> NoField])
    /\ pc' = "error"
    /\ UNCHANGED <<retval, config, n, n_finished, num_img, img_features,
                   img_id, counter, sum_features, outputs, extract_log>>

\* lines 85-104: extraction on the fly without a model; the feature source
\* needs the loaded model and the call fails
ExtractWithoutModel ==
    /\ pc = "view_loop"
    /\ img_id < num_img
    /\ ~keep_features_in_memory
    /\ ~model_loaded
    /\ \E mapping \in Mappings :
          /\ ~IsSkipped(mapping)
          /\ vis_id' = SetVisColumn(vis_id, img_id, mapping)
          /\ views' = Append(views, [mapping |-> mapping, feat_2d |-> NoField])
    /\ extract_log' = Append(extract_log, img_id)
    /\ pc' = "error"
    /\ UNCHANGED <<retval, config, n, n_finished, num_img, img_features,
                   img_id, counter, sum_features, outputs>>

\* lines 111-113
Finalize ==
    /\ pc = "view_loop"
    /\ img_id = num_img
    /\ LET r == FinalizeOp(counter, sum_features, vis_id)
       IN  /\ counter' = r.counter
           /\ sum_features' = r.sum_features
           /\ vis_id' = r.vis_id
           /\ feat_bank' = r.feat_bank
           /\ point_ids' = r.point_ids
    /\ pc' = "breakpoint"
    /\ UNCHANGED <<retval, config, n, n_finished, num_img, img_features,
                   img_id, saved, views, extract_log>>

\* line 114: the debugger hands control back
DebuggerContinue ==
    /\ pc = "breakpoint"
    /\ pc' = "save"
    /\ UNCHANGED <<retval, config, n, n_finished, num_img, img_features,
                   img_id, accumulator, outputs, views, extract_log>>

\* line 116
SaveFusedFeature ==
    /\ pc = "save"
    /\ saved' = Append(saved, [feat_bank |-> feat_bank, point_ids |-> point_ids])
    /\ pc' = "returned"
    /\ retval' = "None"
    /\ UNCHANGED <<config, n, n_finished, num_img, img_features, img_id,
                   accumulator, feat_bank, point_ids, views, extract_log>>

\* every step the interpreter takes on its own
ProgramStep ==
    \/ CheckShard
    \/ AlreadyDone
    \/ ListImages
    \/ PrefetchFeature
    \/ AllocAccumulators
    \/ SkipView
    \/ FuseCachedView
    \/ FuseExtractedView
    \/ CacheUnbound
    \/ ExtractWithoutModel
    \/ Finalize
    \/ SaveFusedFeature

Next ==
    \/ CheckShard
    \/ AlreadyDone
    \/ ListImages
    \/ PrefetchFeature
    \/ AllocAccumulators
    \/ SkipView
    \/ FuseCachedView
    \/ FuseExtractedView
    \/ CacheUnbound
    \/ ExtractWithoutModel
    \/ Finalize
    \/ DebuggerContinue
    \/ SaveFusedFeature

Spec == Init /\ [][Next]_vars

\* the interpreter keeps running; nothing makes the debugger continue
FairSpec == Spec /\ WF_vars(ProgramStep)

\* ------------------------------------------- the view loop as a function
\* lines 78-113 run over the loaded views taken in the given order: the
\* view order[i] is the i-th one the loop sees (img_id = i - 1)
RECURSIVE RunViews(_, _, _)
RunViews(acc, order, i) ==
    IF i > Len(order) THEN acc
    ELSE LET v == views[order[i]]
         IN  RunViews(IF IsSkipped(v.mapping) THEN acc
                      ELSE FuseView(acc, i - 1, v.mapping, v.feat_2d),
                      order, i + 1)

RunScene(order) ==
    LET acc == RunViews([counter |-> ZeroCounter(Points),
                         sum_features |-> ZeroSum(Points),
                         vis_id |-> ZeroVis(Points, Len(order))],
                        order, 1)
    IN  FinalizeOp(acc.counter, acc.sum_features, acc.vis_id)

\* ------------------------------------------------ vocabulary of the claims
ViewIds == 1 .. Len(views)

Orders == Permutations(ViewIds)

\* the mask of point p in the i-th loaded view
MaskAt(i, p) == views[i].mapping[p][4]

AllMaskZero(i) == \A p \in Points : MaskAt(i, p) = 0

\* the views point p is visible in
SeenIn(p) == {i \in ViewIds : MaskAt(i, p) # 0}

TimesSeen(p) == Cardinality(SeenIn(p))

\* the feature vector of the i-th view at p's pixel
FeatureAt(i, p) ==
    [d \in Dims |->
        views[i].feat_2d[<<d, views[i].mapping[p][2], views[i].mapping[p][3]>>]]

\* float32 sum, in view order, of the features of the views 1..i that see p
RECURSIVE SeenSum(_, _, _)
SeenSum(p, d, i) ==
    IF i = 0 THEN Zero
    ELSE IF MaskAt(i, p) # 0 THEN FAdd(SeenSum(p, d, i - 1), FeatureAt(i, p)[d])
    ELSE SeenSum(p, d, i - 1)

ZeroVector == [d \in Dims |-> Zero]

Finalized == pc \in {"breakpoint", "save"} \/ retval = "None"

\* the step of the view loop that skips a view
SkipStep ==
    /\ pc = "view_loop"
    /\ img_id' = img_id + 1
    /\ \A p \in Points : views'[Len(views')].mapping[p][4] = 0

FinalizeStep == pc = "view_loop" /\ pc' = "breakpoint"

AllExist == (0 .. num_rand_file_per_scene - 1) \subseteq existing

\* ------------------------------------------------------------------- C1
\* C1 (as stated): for a fixed scene, the feature bank and the
\* visible-point-id set are identical for every order of the views.
C1_OrderIndependent ==
    pc = "breakpoint" =>
        \A order \in Orders :
            LET r == RunScene(order)
            IN  r.feat_bank = feat_bank /\ r.point_ids = point_ids

\* C1 (amended): for every order of the views the visible-point-id set and
\* the counters are identical, and so is the feature-bank row of every point
\* visible in at most two views; three or more float32 additions need not
\* commute with reordering.
C1_OrderIndependentUpToRounding ==
    pc = "breakpoint" =>
        \A order \in Orders :
            LET r == RunScene(order)
            IN  /\ r.point_ids = point_ids
                /\ r.counter = counter
                /\ \A p \in Points :
                      TimesSeen(p) <= 2 => r.feat_bank[p] = feat_bank[p]

C1_Witness ==
    /\ pc = "breakpoint"
    /\ Len(views) = 3
    /\ \E p \in Points :
          /\ SeenIn(p) = {1, 3}
          /\ FeatureAt(1, p) # FeatureAt(3, p)
          /\ feat_bank[p] # ZeroVector

\* ------------------------------------------------------------------- C2
\* C2: after the loop and finalization, a point visible in k >= 1 views has
\* counter k and its feature-bank row is the sum of the features gathered at
\* its pixel in exactly those views, divided by k.
C2_MultiViewAverage ==
    pc = "breakpoint" =>
        \A p \in Points :
            TimesSeen(p) >= 1 =>
                /\ counter[p] = FromInt(TimesSeen(p))
                /\ \A d \in Dims :
                      /\ sum_features[p][d] = SeenSum(p, d, Len(views))
                      /\ feat_bank[p][d] =
                            FDiv(SeenSum(p, d, Len(views)),
                                 FromInt(TimesSeen(p)))

C2_Witness ==
    /\ pc = "breakpoint"
    /\ \E p \in Points :
          /\ TimesSeen(p) = 2
          /\ counter[p] = FromInt(2)
          /\ \E i \in ViewIds : MaskAt(i, p) = 0 /\ ~AllMaskZero(i)
          /\ \E i, j \in SeenIn(p) : FeatureAt(i, p) # FeatureAt(j, p)

\* ------------------------------------------------------------------- C3
\* C3: during the view loop the set of points reported visible never
\* shrinks, whether a view is skipped or accumulated.
C3_VisibilityMonotone ==
    [][pc = "view_loop" => PointIds(vis_id) \subseteq PointIds(vis_id')]_vars

C3_Witness ==
    /\ pc = "view_loop"
    /\ Len(views) = 3
    /\ \E p \in Points :
          /\ MaskAt(1, p) # 0
          /\ AllMaskZero(2)
          /\ MaskAt(3, p) = 0 /\ ~AllMaskZero(3)
          /\ p \in PointIds(vis_id)

\* ------------------------------------------------------------------- C4
\* C4: after every step of the view loop counter[p] is the number of views
\* whose vis_id column is nonzero at p, and at finalization p is in point_ids
\* exactly if it was counted in at least one view (its counter was not
\* replaced by epsilon).
C4_CounterMatchesLedger ==
    /\ pc = "view_loop" =>
          \A p \in Points :
              counter[p] =
                  FromInt(Cardinality({v \in DOMAIN vis_id[p] : vis_id[p][v] # 0}))
    /\ Finalized =>
          /\ point_ids = {p \in Points : TimesSeen(p) >= 1}
          /\ point_ids = {p \in Points : counter[p] # Eps}

C4_Witness ==
    /\ Finalized
    /\ \E p, q \in Points :
          /\ p \in point_ids /\ counter[p] = FromInt(2)
          /\ q \notin point_ids /\ counter[q] = Eps

\* ------------------------------------------------------------------- C5
\* C5: a scene with zero views is processed without error and without any
\* feature extraction; every counter is 0 before the epsilon substitution,
\* the feature bank is zero everywhere and the visible set is empty.
C5_ZeroViews ==
    (num_img = 0 /\ pc # "check_shards") =>
        /\ pc # "error"
        /\ extract_log = <<>>
        /\ pc = "view_loop" => \A p \in Points : counter[p] = Zero
        /\ Finalized =>
              /\ \A p \in Points : feat_bank[p] = ZeroVector
              /\ point_ids = {}
        /\ \A i \in 1 .. Len(saved) :
              /\ saved[i].point_ids = {}
              /\ \A p \in Points : saved[i].feat_bank[p] = ZeroVector

C5_Witness == num_img = 0 /\ retval = "None" /\ Len(saved) = 1

\* ------------------------------------------------------------------- C6
\* C6 (as stated): feature extraction is never invoked for a view whose mask
\* is entirely false, under every setting of keep_features_in_memory, and
\* the accumulator and the ledger are the same after that view as before.
C6_SkippedViewNeverExtracted ==
    [][/\ \A i \in 1 .. Len(views') :
              (\A p \in Points : views'[i].mapping[p][4] = 0)
                  => \A j \in 1 .. Len(extract_log') : extract_log'[j] # i - 1
       /\ SkipStep => accumulator' = accumulator]_vars

\* C6 (amended): the view loop never invokes feature extraction for a view
\* whose mask is entirely false and leaves counter, sum_features and vis_id
\* as they were; when features are extracted on the fly no extraction at all
\* is made for such a view, while with keep_features_in_memory on and a model
\* loaded the prefetch before the loop has extracted every view once.
C6_SkippedViewNotExtractedInLoop ==
    [][/\ SkipStep => accumulator' = accumulator /\ extract_log' = extract_log
       /\ \A i \in 1 .. Len(views') :
              (\A p \in Points : views'[i].mapping[p][4] = 0) =>
                  Cardinality({j \in 1 .. Len(extract_log') :
                                  extract_log'[j] = i - 1})
                      = IF UsePrefetch(keep_features_in_memory', model_loaded')
                        THEN 1 ELSE 0]_vars

C6_Witness ==
    /\ pc = "view_loop"
    /\ ~keep_features_in_memory
    /\ Len(views) = 2
    /\ ~AllMaskZero(1)
    /\ AllMaskZero(2)
    /\ extract_log = <<0>>
    /\ PointIds(vis_id) # {}

\* ------------------------------------------------------------------- C7
\* C7 (as stated): during the view loop counter[p] is 0 exactly if
\* sum_features[p] is the all-zero vector, and counters and sums are
\* non-negative.
C7_CounterZeroIffSumZero ==
    pc = "view_loop" =>
        \A p \in Points :
            /\ counter[p] = Zero <=> sum_features[p] = ZeroVector
            /\ counter[p].m >= 0
            /\ \A d \in Dims : sum_features[p][d].m >= 0

\* C7 (amended): during the view loop counters are non-negative and a point
\* whose counter is 0 has an all-zero sum; a counted point may have a zero
\* or negative sum when feature components are zero, negative or cancel.
C7_CounterZeroImpliesSumZero ==
    pc = "view_loop" =>
        \A p \in Points :
            /\ counter[p] = Zero => sum_features[p] = ZeroVector
            /\ counter[p].m >= 0

C7_Witness ==
    /\ pc = "view_loop"
    /\ img_id = 2
    /\ \E p, q \in Points :
          /\ counter[p] = Zero /\ sum_features[p] = ZeroVector
          /\ counter[q] = FromInt(2) /\ sum_features[q] # ZeroVector

\* ------------------------------------------------------------------- C8
\* C8 (as stated): finalization leaves counter, sum_features and vis_id
\* unchanged, and finalizing again yields the same feature bank and the same
\* visible-point-id set.
C8_FinalizeReadOnly ==
    [][FinalizeStep =>
          /\ accumulator' = accumulator
          /\ LET r == FinalizeOp(counter', sum_features', vis_id')
             IN  r.feat_bank = feat_bank' /\ r.point_ids = point_ids']_vars

\* C8 (amended): finalization leaves sum_features and vis_id unchanged and
\* changes counter only by replacing its zero entries with 1e-5; finalizing
\* again changes nothing and yields the same feature bank and the same
\* visible-point-id set.
C8_FinalizeIdempotent ==
    [][FinalizeStep =>
          /\ sum_features' = sum_features
          /\ vis_id' = vis_id
          /\ counter' = [p \in Points |->
                            IF counter[p] = Zero THEN Eps ELSE counter[p]]
          /\ LET r == FinalizeOp(counter', sum_features', vis_id')
             IN  /\ r.feat_bank = feat_bank'
                 /\ r.point_ids = point_ids'
                 /\ r.counter = counter'
                 /\ r.sum_features = sum_features'
                 /\ r.vis_id = vis_id']_vars

C8_Witness ==
    /\ pc = "breakpoint"
    /\ \E p, q \in Points :
          /\ counter[p] = Eps
          /\ counter[q] = FromInt(2)
          /\ feat_bank[q] # sum_features[q]

\* ------------------------------------------------------------------- C9
\* C9: when every shard file of the scene exists the function returns 1
\* without running the view loop, extracting features or calling the writer;
\* when a shard file is missing it does not return early, and the writer is
\* called only after the loop has run over every view.
C9_SkipOnlyWhenAllShardsExist ==
    /\ AllExist =>
          /\ pc \in {"check_shards", "returned"}
          /\ retval \in {"", "1"}
          /\ views = <<>> /\ extract_log = <<>> /\ saved = <<>>
    /\ ~AllExist =>
          /\ retval # "1"
          /\ pc = "returned" => retval = "None"
          /\ saved # <<>> => Len(saved) = 1 /\ Len(views) = num_img
    /\ (pc = "check_shards" /\ n = num_rand_file_per_scene) =>
          (AllExist <=> n_finished = num_rand_file_per_scene)

C9_Witness ==
    /\ pc = "returned"
    /\ retval = "1"
    /\ num_rand_file_per_scene = TrainShards
    /\ n_finished = TrainShards

\* ------------------------------------------------------------------ C10
\* C10: once the view loop of a scene that is not fully exported starts,
\* every view is visited and save_fused_feature is eventually called exactly
\* once with the finalized feature bank and point ids, without the run
\* stopping or waiting between the last view and the write.
C10_RunsToTheWrite ==
    (pc = "view_loop" /\ model_loaded)
        ~> (/\ Len(saved) = 1
            /\ Len(views) = num_img
            /\ saved[1] = [feat_bank |-> feat_bank, point_ids |-> point_ids])

====
